---- MODULE Spec2Model ----
(***************************************************************************)
(* Model of the SuiSight service worker (src/sw.js): the install,          *)
(* activate and fetch listeners, the periodic limitCacheSize pass, and the *)
(* CacheStorage they share.                                                *)
(*                                                                         *)
(* Strings that the code inspects (URLs, host names, paths) are sequences  *)
(* of one-character strings, so that String.includes and String.startsWith *)
(* are computed character by character.                                    *)
(*                                                                         *)
(* CacheStorage is a sequence of partitions in creation order; a partition *)
(* is a sequence of entries in insertion order.  caches.match searches the *)
(* partitions in creation order; cache.put removes the entry stored for    *)
(* the same request and appends the new one.                               *)
(*                                                                         *)
(* What the host guarantees and the model relies on:                       *)
(*  - fetch events are dispatched only once the activate event's waitUntil *)
(*    promise is settled;                                                  *)
(*  - storage operations take effect in separate steps, so the chains of   *)
(*    different events interleave at every asynchronous boundary;          *)
(*  - the worker is terminated only while idle (no event in progress, no   *)
(*    promise reaction pending); timers do not keep it alive and are lost; *)
(*  - a 5-minute timer fires after the cache write that set it took effect.*)
(*                                                                         *)
(* Specifications: Spec is the worker on a storage whose operations are    *)
(* fulfilled, FairSpec adds the progress of pending promise reactions,     *)
(* FaultSpec lets the open and the put of a cache write be rejected,       *)
(* RouterSpec dispatches one request out of a larger set, LimitSpec runs   *)
(* one limitCacheSize pass alone, ExpirySpec fetches one API resource      *)
(* whose answer changes between fetches.                                   *)
(***************************************************************************)
EXTENDS Integers, Sequences, FiniteSets, TLC

\* ------------------------------------------------------------------ bounds
\* number of fetch events dispatched to the worker
MaxFetches == 2

\* ------------------------------------------------------- program constants
CACHE_NAME == "suisight-v1.0.0"
STATIC_CACHE_NAME == "suisight-static-v1.0.0"
DYNAMIC_CACHE_NAME == "suisight-dynamic-v1.0.0"

\* '/', '/index.html', '/manifest.json', '/Fulcrum.png', '/vite.svg'
PathRoot == <<"/">>
PathIndex == <<"/","i","n","d","e","x",".","h","t","m","l">>
PathManifest == <<"/","m","a","n","i","f","e","s","t",".","j","s","o","n">>
PathFulcrum == <<"/","F","u","l","c","r","u","m",".","p","n","g">>
PathVite == <<"/","v","i","t","e",".","s","v","g">>
STATIC_ASSETS == <<PathRoot, PathIndex, PathManifest, PathFulcrum, PathVite>>

\* the literals of the fetch listener
MethodGet == "GET"
HttpPrefix == <<"h","t","t","p">>
RpcMarker == <<"s","u","i">>
ApiMarker == <<"a","p","i">>
ModeNavigate == "navigate"
\* the second argument of limitCacheSize in the cleanup interval
MaxItems == 50

\* ------------------------------------------------------------ string model
\* String.prototype.startsWith
StartsWith(s, p) ==
  /\ Len(p) <= Len(s)
  /\ \A i \in 1..Len(p) : s[i] = p[i]

\* a test for a prefix in place of a test for a substring
Includes_Prefix(s, p) ==
  /\ Len(p) <= Len(s)
  /\ \A i \in 1..Len(p) : s[i] = p[i]

\* String.prototype.includes: p occurs in s at some offset
Includes(s, p) ==
  \E k \in 0..(Len(s) - Len(p)) : \A i \in 1..Len(p) : s[k + i] = p[i]

\* ----------------------------------------------------------------- requests
\* the origin the worker is registered for: https://app.io
SelfScheme == <<"h","t","t","p","s">>
SelfHost == <<"a","p","p",".","i","o">>
SchemeHttp == <<"h","t","t","p">>
SchemeExt == <<"c","h","r","o","m","e","-","e","x","t">>
HostRpc == <<"n","o","d","e",".","s","u","i",".","i","o">>
PathDash == <<"/","d","a","s","h">>
PathIcon == <<"/","i",".","p","n","g">>
PathHealth == <<"/","h","e","a","l","t","h">>
PathApi == <<"/","v","1","/","a","p","i","/","x">>
PathUpper == <<"/","A","P","I">>
NoSearch == <<>>
SearchApi == <<"?","q","=","a","p","i">>

\* request.url (the serialisation of the URL's components)
Href(scheme, hostname, pathname, search) ==
  scheme \o <<":","/","/">> \o hostname \o pathname \o search

\* the URL a root-relative string resolves to in the worker
SelfUrl(pathname) == Href(SelfScheme, SelfHost, pathname, NoSearch)

Req(method, scheme, hostname, pathname, search, mode) ==
  [method |-> method, scheme |-> scheme, hostname |-> hostname,
   pathname |-> pathname, search |-> search, mode |-> mode]

RequestUrl(request) ==
  Href(request.scheme, request.hostname, request.pathname, request.search)

\* the requests the environment sends
Requests ==
  { Req("GET", SelfScheme, SelfHost, PathDash, NoSearch, "navigate"),
    Req("GET", SelfScheme, SelfHost, PathIndex, NoSearch, "navigate"),
    Req("GET", SelfScheme, SelfHost, PathIcon, NoSearch, "no-cors"),
    Req("GET", SelfScheme, HostRpc, PathHealth, NoSearch, "cors"),
    Req("POST", SelfScheme, HostRpc, PathHealth, NoSearch, "cors") }

\* ---------------------------------------------------------------- responses
Resp(status, statusText, contentType, body) ==
  [status |-> status, statusText |-> statusText,
   contentType |-> contentType, body |-> body]

\* Response.ok
Ok(response) == response.status >= 200 /\ response.status <= 299

\* what the network answers: the current version of a resource, or an error
\* status
NetResponses ==
  { Resp(200, "OK", "application/octet-stream", "v1"),
    Resp(404, "Not Found", "text/html", "missing") }

\* what the network answers for a manifest asset at install time
AssetResponse == Resp(200, "OK", "text/html", "asset")

\* the placeholder with the status of a success
OfflineResponse_Ok == Resp(200, "OK", "text/plain", "Offline")

\* new Response('Offline', {status: 503, ...})
OfflineResponse == Resp(503, "Service Unavailable", "text/plain", "Offline")

\* --------------------------------------------------------------- routing
\* routing without the test of the method
Lane_NoMethodCheck(request) ==
  IF ~StartsWith(RequestUrl(request), HttpPrefix) THEN "SKIP"
  ELSE IF Includes(request.hostname, RpcMarker)
          \/ Includes(request.pathname, ApiMarker) THEN "API_LANE"
  ELSE "PAGE_LANE"

\* the lane the fetch listener takes
Lane(request) ==
  IF request.method # MethodGet THEN "SKIP"
  ELSE IF ~StartsWith(RequestUrl(request), HttpPrefix) THEN "SKIP"
  ELSE IF Includes(request.hostname, RpcMarker)
          \/ Includes(request.pathname, ApiMarker) THEN "API_LANE"
  ELSE "PAGE_LANE"

\* ----------------------------------------------------------- cache storage
Entry(url, response) == [url |-> url, response |-> response]
Partition(name, entries) == [name |-> name, entries |-> entries]

\* the names of the existing partitions, as a set
CacheNames(cs) == { cs[i].name : i \in 1..Len(cs) }

\* the index of the partition called name (0 when there is none)
IndexOf(cs, name) ==
  IF name \in CacheNames(cs)
  THEN CHOOSE i \in 1..Len(cs) : cs[i].name = name
  ELSE 0

\* the entries of the partition called name (none when it does not exist)
EntriesOf(cs, name) ==
  IF IndexOf(cs, name) = 0 THEN <<>> ELSE cs[IndexOf(cs, name)].entries

\* cache.keys(): the request URLs in insertion order
CacheKeys(entries) == [i \in 1..Len(entries) |-> entries[i].url]

\* cache.match(url): <<response>> of the entry stored for url, <<>> if none
CacheMatch(entries, url) ==
  IF \E i \in 1..Len(entries) : entries[i].url = url
  THEN << entries[CHOOSE i \in 1..Len(entries) : entries[i].url = url].response >>
  ELSE <<>>

\* a match restricted to the static partition
CachesMatch_StaticOnly(cs, url) ==
  IF \E p \in 1..Len(cs) : cs[p].name = STATIC_CACHE_NAME
  THEN CacheMatch(cs[CHOOSE p \in 1..Len(cs) : cs[p].name = STATIC_CACHE_NAME].entries, url)
  ELSE <<>>

\* caches.match(url): the first hit over the partitions in creation order
RECURSIVE CachesMatch(_, _)
CachesMatch(cs, url) ==
  IF cs = <<>> THEN <<>>
  ELSE IF CacheMatch(Head(cs).entries, url) # <<>>
       THEN CacheMatch(Head(cs).entries, url)
       ELSE CachesMatch(Tail(cs), url)

\* cache.delete(url) on a partition's entries
CacheDelete(entries, url) == SelectSeq(entries, LAMBDA e : e.url # url)

\* a put that keeps the entry already stored for url
CachePut_KeepExisting(entries, url, response) ==
  IF \E i \in 1..Len(entries) : entries[i].url = url
  THEN entries
  ELSE Append(entries, Entry(url, response))

\* cache.put(url, response): the entry stored for url is replaced by a new
\* one at the end of the insertion order
CachePut(entries, url, response) ==
  Append(CacheDelete(entries, url), Entry(url, response))

\* caches.open(name): creates the partition when it does not exist
CachesOpen(cs, name) ==
  IF name \in CacheNames(cs) THEN cs ELSE Append(cs, Partition(name, <<>>))

\* caches.delete(name)
CachesDelete(cs, name) == SelectSeq(cs, LAMBDA c : c.name # name)

\* the partition called name holds entries after an operation on it; a
\* handle to a partition that no longer exists changes nothing
WithEntries(cs, name, entries) ==
  [i \in 1..Len(cs) |->
     IF cs[i].name = name THEN Partition(name, entries) ELSE cs[i]]

\* cache.addAll(STATIC_ASSETS) once every asset is fetched: one put per
\* asset, in manifest order, each storing the asset's response
RECURSIVE AddAll(_, _, _)
AddAll(entries, assets, response) ==
  IF assets = <<>> THEN entries
  ELSE AddAll(CachePut(entries, SelfUrl(Head(assets)), response),
              Tail(assets), response)

\* an addAll that keeps the assets fetched before the one that failed
AddAllRejected_Partial(entries, assets, failed) ==
  AddAll(entries, SubSeq(assets, 1, failed - 1),
         [status |-> 200, statusText |-> "OK", contentType |-> "text/html",
          body |-> "asset"])

\* cache.addAll(STATIC_ASSETS) when the fetch of the asset numbered failed is
\* rejected or not ok: addAll fetches every asset before it stores any, so
\* the promise is rejected with the partition as it was
AddAllRejected(entries, assets, failed) == entries

\* ------------------------------------------------------------------- state
VARIABLES
  phase,        \* lifecycle of the worker: parsed, installing, installed,
                \* activating, activated
  preload,      \* outcome of the install listener's chain
  skipWaiting,  \* self.skipWaiting() was called
  claimed,      \* self.clients.claim() was called
  caches,       \* CacheStorage: partitions in creation order
  act,          \* the activate listener's chain: stage and deletions in flight
  tasks,        \* the fetch events with a pending promise chain or timer
  last,         \* the fetch event whose outcome went to the client last
  nfetch,       \* fetch events dispatched so far
  lim,          \* the limitCacheSize pass: stage and deletions in flight
  rejection     \* how the last rejected storage promise ended: "none" when
                \* none was rejected, "unhandled" when no handler was attached

vars ==
  <<phase, preload, skipWaiting, claimed, caches, act, tasks, last, nfetch, lim,
    rejection>>

\* ----------------------------------------------------------- initial state
OldStatic == "suisight-static-v0.9.0"
OldDynamic == "suisight-dynamic-v0.9.0"
OldResponse == Resp(200, "OK", "application/octet-stream", "v0")

\* one-character path segments of further pages the previous run of this
\* version cached
FillerChars ==
  <<"a","b","c","d","e","f","g","h","i","j","k","l","m","n","o","p","q","r",
    "s","t","u","v","w","x","y","z","A","B","C","D","E","F","G","H","I","J",
    "K","L","M","N","O","P","Q","R","S","T","U","V","W">>

FillerEntries ==
  [k \in 1..Len(FillerChars) |->
     Entry(SelfUrl(<<"/", FillerChars[k]>>), OldResponse)]

\* what earlier deployments may have left in CacheStorage when this version
\* of the script is first evaluated: nothing; the partitions of an older
\* version; or the partitions of this version, filled by a worker whose
\* script was replaced without a change of names (its dynamic partition
\* holds one entry more than the cleanup keeps)
InitialStorages ==
  { <<>>,
    << Partition(OldStatic, << Entry(SelfUrl(PathIndex), OldResponse) >>),
       Partition(OldDynamic,
                 << Entry(Href(SelfScheme, HostRpc, PathHealth, NoSearch),
                          OldResponse) >>) >>,
    << Partition(CACHE_NAME, <<>>),
       Partition(STATIC_CACHE_NAME,
                 << Entry(SelfUrl(PathIndex), OldResponse),
                    Entry(SelfUrl(PathVite), OldResponse) >>),
       Partition(DYNAMIC_CACHE_NAME,
                 << Entry(Href(SelfScheme, HostRpc, PathHealth, NoSearch),
                          OldResponse),
                    Entry(SelfUrl(PathIcon), OldResponse) >>
                 \o FillerEntries) >> }

\* the state of one fetch event's promise chains
\*   pc       where the chain passed to respondWith stands: "done" when the
\*            promise is settled, "skipped" when respondWith was not called
\*   net      <<response>> once fetch(request) is fulfilled
\*   netfail  fetch(request) was rejected (network failure or abort)
\*   result   what the respondWith promise resolved to: <<response>>, or <<>>
\*            for undefined
\*   bg       the caches.open(...).then(cache.put) chain that nothing awaits
\*   timer    the setTimeout of the API lane
\*   ops      the CacheStorage operations the event has issued
\*   fetched  fetch(request) was issued
NewTask(request, lane) ==
  [req |-> request, lane |-> lane, pc |-> "skipped", net |-> <<>>,
   netfail |-> FALSE, result |-> <<>>, bg |-> "none", timer |-> "none",
   ops |-> {}, fetched |-> FALSE]

\* no fetch event was handled yet
NoEvent ==
  [NewTask(Req("", <<>>, <<>>, <<>>, <<>>, ""), "none") EXCEPT !.pc = "none"]

Init ==
  /\ phase = "parsed"
  /\ preload = "none"
  /\ skipWaiting = FALSE
  /\ claimed = FALSE
  /\ caches \in InitialStorages
  /\ act = [pc |-> "idle", pending |-> {}]
  /\ tasks = << >>
  /\ last = NoEvent
  /\ nfetch = 0
  /\ lim = [pc |-> "idle", pending |-> {}]
  /\ rejection = "none"

\* ------------------------------------------------------------ install event
\* the install listener: caches.open(STATIC_CACHE_NAME) is issued
InstallEvent ==
  /\ phase = "parsed"
  /\ phase' = "installing"
  /\ preload' = "pending"
  /\ caches' = CachesOpen(caches, STATIC_CACHE_NAME)
  /\ UNCHANGED <<skipWaiting, claimed, act, tasks, last, nfetch, lim, rejection>>

\* every asset was fetched with an ok status: cache.addAll stores them all,
\* then self.skipWaiting() is called and the waitUntil promise is fulfilled
InstallAddAllOk ==
  /\ phase = "installing"
  /\ caches' = WithEntries(caches, STATIC_CACHE_NAME,
                           AddAll(EntriesOf(caches, STATIC_CACHE_NAME),
                                  STATIC_ASSETS, AssetResponse))
  /\ preload' = "ok"
  /\ skipWaiting' = TRUE
  /\ phase' = "installed"
  /\ UNCHANGED <<claimed, act, tasks, last, nfetch, lim, rejection>>

\* the fetch of some asset failed or was not ok: cache.addAll rejects having
\* stored nothing, the catch handler logs, the waitUntil promise is fulfilled
InstallAddAllFail ==
  /\ phase = "installing"
  /\ \E failed \in 1..Len(STATIC_ASSETS) :
       caches' = WithEntries(caches, STATIC_CACHE_NAME,
                             AddAllRejected(EntriesOf(caches, STATIC_CACHE_NAME),
                                            STATIC_ASSETS, failed))
  /\ preload' = "failed"
  /\ phase' = "installed"
  /\ UNCHANGED <<skipWaiting, claimed, act, tasks, last, nfetch, lim, rejection>>

\* ----------------------------------------------------------- activate event
\* the activate listener: caches.keys() is issued
ActivateEvent ==
  /\ phase = "installed"
  /\ phase' = "activating"
  /\ act' = [pc |-> "keys", pending |-> {}]
  /\ UNCHANGED <<preload, skipWaiting, claimed, caches, tasks, last, nfetch, lim, rejection>>

\* a cleanup that keeps the static partition only
StaleNames_KeepStatic(cacheNames) ==
  { cacheName \in cacheNames : cacheName # STATIC_CACHE_NAME }

\* the names a keys() result maps to caches.delete
StaleNames(cacheNames) ==
  { cacheName \in cacheNames :
      cacheName # STATIC_CACHE_NAME /\ cacheName # DYNAMIC_CACHE_NAME }

\* caches.keys() is fulfilled: one caches.delete per stale name is issued
ActivateKeys ==
  /\ phase = "activating"
  /\ act.pc = "keys"
  /\ act' = [pc |-> "deleting", pending |-> StaleNames(CacheNames(caches))]
  /\ UNCHANGED <<phase, preload, skipWaiting, claimed, caches, tasks, last, nfetch, lim,
                 rejection>>

\* one of the issued caches.delete takes effect
ActivateDelete ==
  /\ phase = "activating"
  /\ act.pc = "deleting"
  /\ \E cacheName \in act.pending :
       /\ caches' = CachesDelete(caches, cacheName)
       /\ act' = [act EXCEPT !.pending = @ \ {cacheName}]
  /\ UNCHANGED <<phase, preload, skipWaiting, claimed, tasks, last, nfetch, lim, rejection>>

\* a claim that does not wait for the deletions
ActivateClaim_Early ==
  /\ phase = "activating"
  /\ act.pc = "deleting"
  /\ claimed' = TRUE
  /\ phase' = "activated"
  /\ act' = [pc |-> "done", pending |-> {}]
  /\ UNCHANGED <<preload, skipWaiting, caches, tasks, last, nfetch, lim, rejection>>

\* Promise.all is fulfilled: self.clients.claim(), the worker is activated
ActivateClaim ==
  /\ phase = "activating"
  /\ act.pc = "deleting"
  /\ act.pending = {}
  /\ claimed' = TRUE
  /\ phase' = "activated"
  /\ act' = [pc |-> "done", pending |-> {}]
  /\ UNCHANGED <<preload, skipWaiting, caches, tasks, last, nfetch, lim, rejection>>

\* -------------------------------------------------------------- fetch event
Tasks == DOMAIN tasks

\* a fetch event stays in tasks while its respondWith chain, its cache write
\* or its timer is pending
IsLive(task) ==
  \/ task.pc \notin {"skipped", "done"}
  \/ task.bg \in {"open", "put"}
  \/ task.timer = "armed"

Prune(ts) == [i \in { j \in DOMAIN ts : IsLive(ts[j]) } |-> ts[i]]

\* the event whose outcome goes to the client in the step that takes a task
\* from before to after: the settled value of respondWith, or the host's own
\* handling of a request the listener skipped
Settled(before, after) ==
  IF after.pc \in {"skipped", "done"} /\ before.pc # after.pc THEN after ELSE last

\* the synchronous part of the fetch listener for request
Dispatch(request) ==
  CASE Lane(request) = "SKIP" -> NewTask(request, "SKIP")
    [] Lane(request) = "API_LANE" ->
         [NewTask(request, "API_LANE") EXCEPT !.pc = "api_fetch", !.fetched = TRUE]
    [] Lane(request) = "PAGE_LANE" ->
         [NewTask(request, "PAGE_LANE") EXCEPT !.pc = "page_match", !.ops = {"match"}]

\* a fetch event carrying one of requests is dispatched, unless limit events
\* were dispatched already
FetchEventOf(requests, limit) ==
  /\ phase = "activated"
  /\ nfetch < limit
  /\ nfetch' = nfetch + 1
  /\ \E request \in requests :
       /\ tasks' = Prune((nfetch + 1 :> Dispatch(request)) @@ tasks)
       /\ last' = Settled(NoEvent, Dispatch(request))
  /\ UNCHANGED <<phase, preload, skipWaiting, claimed, caches, act, lim, rejection>>

FetchEvent == FetchEventOf(Requests, MaxFetches)

\* then-handlers that cache every response, ok or not
OnResponse_CacheAll(task, response) ==
  [task EXCEPT !.pc = "done", !.net = <<response>>, !.result = <<response>>,
               !.bg = "open", !.ops = @ \cup {"open"}]

\* then-handlers that return the response once the cache write is through
OnResponse_AwaitWrite(task, response) ==
  IF Ok(response)
  THEN [task EXCEPT !.pc = "writing", !.net = <<response>>, !.bg = "open",
                    !.ops = @ \cup {"open"}]
  ELSE [task EXCEPT !.pc = "done", !.net = <<response>>,
                    !.result = <<response>>]

\* what the then-handlers of both lanes do with a fulfilled fetch: an ok
\* response is cloned and caches.open(DYNAMIC_CACHE_NAME) is issued without
\* being awaited; the response is returned
OnResponse(task, response) ==
  IF Ok(response)
  THEN [task EXCEPT !.pc = "done", !.net = <<response>>,
                    !.result = <<response>>, !.bg = "open",
                    !.ops = @ \cup {"open"}]
  ELSE [task EXCEPT !.pc = "done", !.net = <<response>>,
                    !.result = <<response>>]

\* task i becomes after; nothing else changes
Step(i, after) ==
  /\ tasks' = Prune([tasks EXCEPT ![i] = after])
  /\ last' = Settled(tasks[i], after)
  /\ UNCHANGED <<phase, preload, skipWaiting, claimed, caches, act, nfetch,
                 lim, rejection>>

\* task i becomes after and CacheStorage becomes cs
StepStore(i, after, cs) ==
  /\ tasks' = Prune([tasks EXCEPT ![i] = after])
  /\ caches' = cs
  /\ UNCHANGED <<phase, preload, skipWaiting, claimed, act, last, nfetch,
                 lim, rejection>>

\* API lane: fetch(request) is fulfilled with one of responses
ApiFetchOkOf(i, responses) ==
  /\ tasks[i].pc = "api_fetch"
  /\ \E response \in responses : Step(i, OnResponse(tasks[i], response))

\* API lane: fetch(request) is fulfilled
ApiFetchOk(i) == ApiFetchOkOf(i, NetResponses)

\* API lane: fetch(request) is rejected; the catch handler issues
\* caches.match(request)
ApiFetchFail(i) ==
  /\ tasks[i].pc = "api_fetch"
  /\ Step(i, [tasks[i] EXCEPT !.pc = "api_fallback", !.netfail = TRUE,
                              !.ops = @ \cup {"match"}])

\* a catch handler that resolves to nothing without looking in the caches
ApiFallback_NoCache(i) ==
  /\ tasks[i].pc = "api_fallback"
  /\ Step(i, [tasks[i] EXCEPT !.pc = "done", !.result = <<>>])

\* API lane: caches.match(request) is fulfilled and is the chain's value
ApiFallback(i) ==
  /\ tasks[i].pc = "api_fallback"
  /\ Step(i, [tasks[i] EXCEPT
                !.pc = "done",
                !.result = CachesMatch(caches, RequestUrl(tasks[i].req))])

\* a page lane that goes to the network whatever the caches hold
PageMatch_NetworkFirst(i) ==
  /\ tasks[i].pc = "page_match"
  /\ Step(i, [tasks[i] EXCEPT !.pc = "page_fetch", !.fetched = TRUE])

\* page lane: caches.match(request) is fulfilled; a hit is returned, a miss
\* issues fetch(request)
PageMatch(i) ==
  /\ tasks[i].pc = "page_match"
  /\ Step(i, IF CachesMatch(caches, RequestUrl(tasks[i].req)) # <<>>
             THEN [tasks[i] EXCEPT
                     !.pc = "done",
                     !.result = CachesMatch(caches, RequestUrl(tasks[i].req))]
             ELSE [tasks[i] EXCEPT !.pc = "page_fetch", !.fetched = TRUE])

\* page lane: fetch(request) is fulfilled
PageFetchOk(i) ==
  /\ tasks[i].pc = "page_fetch"
  /\ \E response \in NetResponses : Step(i, OnResponse(tasks[i], response))

\* page lane: fetch(request) is rejected; a navigation issues
\* caches.match('/index.html'), anything else gets the synthesized response
PageFetchFail(i) ==
  /\ tasks[i].pc = "page_fetch"
  /\ Step(i, IF tasks[i].req.mode = ModeNavigate
             THEN [tasks[i] EXCEPT !.pc = "page_offline", !.netfail = TRUE,
                                   !.ops = @ \cup {"match"}]
             ELSE [tasks[i] EXCEPT !.pc = "done", !.netfail = TRUE,
                                   !.result = <<OfflineResponse>>])

\* page lane: caches.match('/index.html') is fulfilled and is the chain's
\* value
PageOffline(i) ==
  /\ tasks[i].pc = "page_offline"
  /\ Step(i, [tasks[i] EXCEPT
                !.pc = "done",
                !.result = CachesMatch(caches, SelfUrl(PathIndex))])

\* caches.open(DYNAMIC_CACHE_NAME) is fulfilled: cache.put is issued and, in
\* the API lane, the 5-minute timer is set
BgOpen(i) ==
  /\ i \in Tasks
  /\ tasks[i].bg = "open"
  /\ StepStore(i, [tasks[i] EXCEPT
                     !.bg = "put", !.ops = @ \cup {"put"},
                     !.timer = IF tasks[i].lane = "API_LANE"
                               THEN "armed" ELSE "none"],
               CachesOpen(caches, DYNAMIC_CACHE_NAME))

\* a put into the static partition
BgPut_IntoStatic(i) ==
  /\ i \in Tasks
  /\ tasks[i].bg = "put"
  /\ StepStore(i, [tasks[i] EXCEPT !.bg = "done"],
               WithEntries(caches, STATIC_CACHE_NAME,
                 CachePut(EntriesOf(caches, STATIC_CACHE_NAME),
                          RequestUrl(tasks[i].req), tasks[i].net[1])))

\* the issued cache.put(request, responseClone) takes effect
BgPut(i) ==
  /\ i \in Tasks
  /\ tasks[i].bg = "put"
  /\ StepStore(i, [tasks[i] EXCEPT !.bg = "done"],
               WithEntries(caches, DYNAMIC_CACHE_NAME,
                 CachePut(EntriesOf(caches, DYNAMIC_CACHE_NAME),
                          RequestUrl(tasks[i].req), tasks[i].net[1])))

\* the 5-minute timer fires: cache.delete(request).  Five minutes are far
\* longer than a cache write, so the timer fires after its put took effect.
ExpireTimer(i) ==
  /\ tasks[i].timer = "armed"
  /\ tasks[i].bg \in {"done", "failed"}
  /\ StepStore(i, [tasks[i] EXCEPT !.timer = "fired", !.ops = @ \cup {"delete"}],
               WithEntries(caches, DYNAMIC_CACHE_NAME,
                 CacheDelete(EntriesOf(caches, DYNAMIC_CACHE_NAME),
                             RequestUrl(tasks[i].req))))

\* ----------------------------------------------------------- limitCacheSize
\* a slice that takes the newest keys in place of the oldest
KeysToDelete_Newest(keys, maxItems) ==
  IF Len(keys) > maxItems
  THEN SubSeq(keys, maxItems + 1, Len(keys))
  ELSE <<>>

\* keys.slice(0, keys.length - maxItems) when keys.length > maxItems
KeysToDelete(keys, maxItems) ==
  IF Len(keys) > maxItems
  THEN SubSeq(keys, 1, Len(keys) - maxItems)
  ELSE <<>>

\* the cleanup interval fires: limitCacheSize(DYNAMIC_CACHE_NAME, 50) opens
\* the partition, reads its keys and issues one cache.delete per key to
\* delete
Tick ==
  /\ phase # "parsed"
  /\ lim.pc = "idle"
  /\ caches' = CachesOpen(caches, DYNAMIC_CACHE_NAME)
  /\ LET keysToDelete ==
           KeysToDelete(CacheKeys(EntriesOf(caches, DYNAMIC_CACHE_NAME)), MaxItems)
     IN lim' = [pc |-> IF keysToDelete = <<>> THEN "idle" ELSE "deleting",
                pending |-> { keysToDelete[k] : k \in 1..Len(keysToDelete) }]
  /\ UNCHANGED <<phase, preload, skipWaiting, claimed, act, tasks, last,
                 nfetch, rejection>>

\* one of the issued cache.delete(key) takes effect
LimDelete ==
  /\ lim.pc = "deleting"
  /\ \E key \in lim.pending :
       /\ caches' = WithEntries(caches, DYNAMIC_CACHE_NAME,
            CacheDelete(EntriesOf(caches, DYNAMIC_CACHE_NAME), key))
       /\ lim' = [lim EXCEPT !.pending = @ \ {key}]
  /\ UNCHANGED <<phase, preload, skipWaiting, claimed, act, tasks, last, nfetch, rejection>>

\* Promise.all is fulfilled: the pass logs and ends
LimDone ==
  /\ lim.pc = "deleting"
  /\ lim.pending = {}
  /\ lim' = [pc |-> "idle", pending |-> {}]
  /\ UNCHANGED <<phase, preload, skipWaiting, claimed, caches, act, tasks, last, nfetch,
                 rejection>>

\* ------------------------------------------------------------- other events
\* the sync listener: checkPriceAlerts reads the stored alerts (none) and
\* logs; no cache is touched
SyncEvent ==
  /\ phase = "activated"
  /\ UNCHANGED vars

\* the push listener: shows a notification
PushEvent ==
  /\ phase = "activated"
  /\ UNCHANGED vars

\* the notificationclick listener: closes the notification and, unless the
\* action is 'close', opens a window
NotificationClickEvent ==
  /\ phase = "activated"
  /\ UNCHANGED vars

\* ------------------------------------------------------------------ restart
\* no event is being handled and no promise chain is pending
Idle ==
  /\ phase \in {"installed", "activated"}
  /\ lim.pc = "idle"
  /\ \A i \in Tasks : /\ tasks[i].pc \in {"skipped", "done"}
                      /\ tasks[i].bg \in {"none", "done", "failed"}

\* the host terminates the idle worker and later starts it again: the script
\* is evaluated anew, pending timers are gone, CacheStorage persists (with
\* no timer pending a restart changes nothing)
Restart ==
  /\ Idle
  /\ \E i \in Tasks : tasks[i].timer = "armed"
  /\ tasks' = Prune([i \in Tasks |-> [tasks[i] EXCEPT !.timer = "lost"]])
  /\ UNCHANGED <<phase, preload, skipWaiting, claimed, caches, act, last, nfetch,
                 lim, rejection>>

\* ------------------------------------------------------------ specification
Next ==
  \/ InstallEvent
  \/ InstallAddAllOk
  \/ InstallAddAllFail
  \/ ActivateEvent
  \/ ActivateKeys
  \/ ActivateDelete
  \/ ActivateClaim
  \/ FetchEvent
  \/ \E i \in Tasks : ApiFetchOk(i)
  \/ \E i \in Tasks : ApiFetchFail(i)
  \/ \E i \in Tasks : ApiFallback(i)
  \/ \E i \in Tasks : PageMatch(i)
  \/ \E i \in Tasks : PageFetchOk(i)
  \/ \E i \in Tasks : PageFetchFail(i)
  \/ \E i \in Tasks : PageOffline(i)
  \/ \E i \in Tasks : BgOpen(i)
  \/ \E i \in Tasks : BgPut(i)
  \/ \E i \in Tasks : ExpireTimer(i)
  \/ Tick
  \/ LimDelete
  \/ LimDone
  \/ SyncEvent
  \/ PushEvent
  \/ NotificationClickEvent
  \/ Restart

Spec == Init /\ [][Next]_vars

\* The event loop runs every pending promise reaction and the storage backend
\* completes every issued operation: the cache write that follows an ok
\* response is not cancelled while the worker lives, and the worker is
\* terminated only when idle.  The same holds for the chain the activate
\* listener passes to waitUntil.
FairSpec ==
  /\ Spec
  /\ \A i \in 1..MaxFetches : WF_vars(BgOpen(i)) /\ WF_vars(BgPut(i))
  /\ WF_vars(ActivateKeys) /\ WF_vars(ActivateDelete) /\ WF_vars(ActivateClaim)

\* ---------------------------------------------------------- storage failure
\* task i's cache write ends with a rejected promise that has no handler:
\* an unhandledrejection event is fired in the worker
Rejected(i) ==
  /\ tasks' = Prune([tasks EXCEPT ![i] = [tasks[i] EXCEPT !.bg = "failed"]])
  /\ rejection' = "unhandled"
  /\ UNCHANGED <<phase, preload, skipWaiting, claimed, caches, act, last,
                 nfetch, lim>>

\* caches.open(DYNAMIC_CACHE_NAME) is rejected: the then-handler does not
\* run (no put, no timer) and the promise then() returned is rejected
BgOpenFail(i) ==
  /\ i \in Tasks
  /\ tasks[i].bg = "open"
  /\ Rejected(i)

\* the issued cache.put is rejected (quota exceeded, I/O error): nothing is
\* stored, the promise put() returned was dropped by the handler
BgPutFail(i) ==
  /\ i \in Tasks
  /\ tasks[i].bg = "put"
  /\ Rejected(i)

\* the worker on a storage whose open and put may fail
FaultNext ==
  \/ Next
  \/ \E i \in Tasks : BgOpenFail(i)
  \/ \E i \in Tasks : BgPutFail(i)

FaultSpec == Init /\ [][FaultNext]_vars

\* ------------------------------------------------- routing of one request
\* every combination of the URL components, methods and modes below
AllRequests ==
  { Req(method, scheme, hostname, pathname, search, mode) :
      method \in {"GET", "POST"},
      scheme \in {SelfScheme, SchemeHttp, SchemeExt},
      hostname \in {SelfHost, HostRpc},
      pathname \in {PathDash, PathApi, PathUpper},
      search \in {NoSearch, SearchApi},
      mode \in {"navigate", "cors"} }

\* an activated worker whose preload failed on an empty CacheStorage
RouterInit ==
  /\ phase = "activated"
  /\ preload = "failed"
  /\ skipWaiting = FALSE
  /\ claimed = TRUE
  /\ caches = << Partition(STATIC_CACHE_NAME, <<>>) >>
  /\ act = [pc |-> "done", pending |-> {}]
  /\ tasks = << >>
  /\ last = NoEvent
  /\ nfetch = 0
  /\ lim = [pc |-> "idle", pending |-> {}]
  /\ rejection = "none"

\* one fetch event with any of the requests: the synchronous part of the
\* listener, which is where the request is routed
RouterEvent == FetchEventOf(AllRequests, 1)

RouterNext == RouterEvent

RouterSpec == RouterInit /\ [][RouterNext]_vars

\* ------------------------------------------- one limitCacheSize pass alone
\* entries the dynamic partition holds beyond maxItems when the pass starts
MaxExtra == 5

\* the path of the k-th page cached: two characters, in the order cached
SeedPath(k) ==
  << "/", FillerChars[((k - 1) \div Len(FillerChars)) + 1],
          FillerChars[((k - 1) % Len(FillerChars)) + 1] >>

\* the entries n page-lane writes leave in the dynamic partition, oldest
\* first
SeedEntries(n) == [k \in 1..n |-> Entry(SelfUrl(SeedPath(k)), OldResponse)]

\* an activated worker after a successful preload with no event in progress;
\* the dynamic partition does not exist yet or holds up to maxItems +
\* MaxExtra entries
LimitInit ==
  /\ phase = "activated"
  /\ preload = "ok"
  /\ skipWaiting = TRUE
  /\ claimed = TRUE
  /\ \/ caches = << Partition(STATIC_CACHE_NAME,
                               AddAll(<<>>, STATIC_ASSETS, AssetResponse)) >>
     \/ \E n \in 0..(MaxItems + MaxExtra) :
          caches = << Partition(STATIC_CACHE_NAME,
                                AddAll(<<>>, STATIC_ASSETS, AssetResponse)),
                      Partition(DYNAMIC_CACHE_NAME, SeedEntries(n)) >>
  /\ act = [pc |-> "done", pending |-> {}]
  /\ tasks = << >>
  /\ last = NoEvent
  /\ nfetch = 0
  /\ lim = [pc |-> "idle", pending |-> {}]
  /\ rejection = "none"

\* the cleanup interval and the pass it starts, nothing else
LimitNext ==
  \/ Tick
  \/ LimDelete
  \/ LimDone

LimitSpec == LimitInit /\ [][LimitNext]_vars

\* --------------------------------------- one API resource fetched repeatedly
\* the RPC endpoint, whose answer changes from one fetch to the next
ExpiryRequests ==
  { Req("GET", SelfScheme, HostRpc, PathHealth, NoSearch, "cors") }

ExpiryResponses ==
  { Resp(200, "OK", "application/json", "v1"),
    Resp(200, "OK", "application/json", "v2") }

\* an activated worker after a successful preload; no dynamic partition yet
ExpiryInit ==
  /\ phase = "activated"
  /\ preload = "ok"
  /\ skipWaiting = TRUE
  /\ claimed = TRUE
  /\ caches = << Partition(STATIC_CACHE_NAME,
                            AddAll(<<>>, STATIC_ASSETS, AssetResponse)) >>
  /\ act = [pc |-> "done", pending |-> {}]
  /\ tasks = << >>
  /\ last = NoEvent
  /\ nfetch = 0
  /\ lim = [pc |-> "idle", pending |-> {}]
  /\ rejection = "none"

\* the API lane of the fetch listener with its cache writes and timers
ExpiryNext ==
  \/ FetchEventOf(ExpiryRequests, MaxFetches)
  \/ \E i \in Tasks : ApiFetchOkOf(i, ExpiryResponses)
  \/ \E i \in Tasks : BgOpen(i)
  \/ \E i \in Tasks : BgPut(i)
  \/ \E i \in Tasks : ExpireTimer(i)

ExpirySpec == ExpiryInit /\ [][ExpiryNext]_vars

\* ============================================================= properties
\* the snapshots stored for url in the partitions numbered ps
SnapshotsAt(cs, ps, url) ==
  UNION { { cs[p].entries[e].response :
              e \in { f \in 1..Len(cs[p].entries) : cs[p].entries[f].url = url } } :
          p \in ps }

\* the snapshots stored for url in any partition
Snapshots(cs, url) == SnapshotsAt(cs, 1..Len(cs), url)

\* the snapshots stored for url in the partition called name
SnapshotsIn(cs, name, url) ==
  SnapshotsAt(cs, { p \in 1..Len(cs) : cs[p].name = name }, url)

\* in this step the respondWith promise of event i, which stood at stage,
\* is settled (the settled event is last')
Settles(i, stage) ==
  /\ i \in DOMAIN tasks
  /\ tasks[i].pc = stage
  /\ (i \notin DOMAIN tasks' \/ tasks'[i].pc = "done")

\* the event answered by the listener whose respondWith promise is settled
Answered(event) == event.lane \in {"API_LANE", "PAGE_LANE"} /\ event.pc = "done"

\* C1: every request the fetch listener answers (API lane or page lane)
\* resolves to a response object, whatever the network call and the
\* partitions do; it never resolves to "no response".
C1_AlwaysAResponse ==
  Answered(last) => last.result # <<>>

\* C2 as stated: a page-lane navigation with no cached entry whose fetch
\* fails is answered with what the static partition stores for /index.html.
C2_StaticIndexOnly ==
  (Answered(last) /\ last.lane = "PAGE_LANE" /\ last.req.mode = "navigate"
     /\ last.netfail)
  => \/ last.result = <<>> /\ SnapshotsIn(caches, STATIC_CACHE_NAME, SelfUrl(PathIndex)) = {}
     \/ last.result # <<>>
          /\ last.result[1] \in SnapshotsIn(caches, STATIC_CACHE_NAME, SelfUrl(PathIndex))

\* C2 amended: a page-lane navigation with no cached entry whose fetch fails
\* is answered with the snapshot the static partition stores for /index.html
\* when it stores one, otherwise with the snapshot the dynamic partition
\* stores for it, and with no response when neither stores one.
C2_FirstIndexSnapshot ==
  [][\A i \in DOMAIN tasks :
       Settles(i, "page_offline") =>
         LET inStatic == SnapshotsIn(caches, STATIC_CACHE_NAME, SelfUrl(PathIndex))
             inDynamic == SnapshotsIn(caches, DYNAMIC_CACHE_NAME, SelfUrl(PathIndex))
         IN /\ last'.req = tasks[i].req
            /\ tasks[i].req.mode = "navigate" /\ tasks[i].netfail
            /\ IF inStatic # {} THEN last'.result # <<>> /\ last'.result[1] \in inStatic
               ELSE IF inDynamic # {}
                    THEN last'.result # <<>> /\ last'.result[1] \in inDynamic
                    ELSE last'.result = <<>>]_vars

\* a failed navigation was answered with the dynamic partition's /index.html
\* while the static partition stores none
C2_Witness ==
  /\ Answered(last) /\ last.lane = "PAGE_LANE" /\ last.req.mode = "navigate"
  /\ last.netfail
  /\ last.result # <<>>
  /\ SnapshotsIn(caches, STATIC_CACHE_NAME, SelfUrl(PathIndex)) = {}
  /\ last.result[1] \in SnapshotsIn(caches, DYNAMIC_CACHE_NAME, SelfUrl(PathIndex))

\* C3: a page-lane request that is not a navigation, has no cached entry and
\* whose fetch fails is answered with status 503, status text "Service
\* Unavailable", Content-Type text/plain and body "Offline", and the request
\* modifies no partition.
C3_OfflinePlaceholder ==
  /\ [](  (Answered(last) /\ last.lane = "PAGE_LANE"
             /\ last.req.mode # "navigate" /\ last.netfail)
          => /\ last.result = << [status |-> 503,
                                  statusText |-> "Service Unavailable",
                                  contentType |-> "text/plain",
                                  body |-> "Offline"] >>
             /\ last.ops = {"match"}
             /\ last.bg = "none" /\ last.timer = "none" )
  /\ [][\A i \in DOMAIN tasks :
          (tasks[i].lane = "PAGE_LANE" /\ tasks[i].req.mode # "navigate"
             /\ Settles(i, "page_fetch") /\ last'.netfail)
          => caches' = caches /\ i \notin DOMAIN tasks']_vars

\* a request for an icon was answered with the placeholder
C3_Witness ==
  /\ Answered(last) /\ last.lane = "PAGE_LANE" /\ last.req.mode # "navigate"
  /\ last.netfail /\ last.fetched
  /\ last.result # <<>> /\ last.result[1].status = 503

\* C4: an API-lane request whose fetch fails is answered with the snapshot
\* cached for its URL when some partition (static or dynamic) stores one, and
\* with no response when no partition does.
C4_ApiFallback ==
  [][\A i \in DOMAIN tasks :
       Settles(i, "api_fallback") =>
         LET stored == Snapshots(caches, RequestUrl(tasks[i].req))
         IN /\ tasks[i].lane = "API_LANE" /\ tasks[i].netfail
            /\ last'.req = tasks[i].req
            /\ stored # {} => last'.result # <<>> /\ last'.result[1] \in stored
            /\ stored = {} => last'.result = <<>>]_vars

\* an API request whose fetch failed was answered from the dynamic partition
C4_Witness ==
  /\ Answered(last) /\ last.lane = "API_LANE" /\ last.netfail
  /\ last.result # <<>>
  /\ last.result[1] \in SnapshotsIn(caches, DYNAMIC_CACHE_NAME, RequestUrl(last.req))

C6_CacheHit ==
  [][\A i \in DOMAIN tasks :
       ( /\ tasks[i].pc = "page_match"
         /\ tasks'  # tasks
         /\ (i \in DOMAIN tasks' => tasks'[i] # tasks[i])
         /\ Snapshots(caches, RequestUrl(tasks[i].req)) # {} )
       => /\ i \notin DOMAIN tasks'
          /\ last'.req = tasks[i].req /\ last'.pc = "done"
          /\ last'.result # <<>>
          /\ last'.result[1] \in Snapshots(caches, RequestUrl(tasks[i].req))
          /\ ~last'.fetched /\ last'.net = <<>>
          /\ last'.ops = {"match"} /\ last'.bg = "none" /\ last'.timer = "none"
          /\ caches' = caches]_vars

\* a page-lane request was answered from the cache without a fetch
C6_Witness ==
  /\ Answered(last) /\ last.lane = "PAGE_LANE"
  /\ ~last.fetched /\ last.result # <<>>
  /\ last.result[1] \in Snapshots(caches, RequestUrl(last.req))

\* C7: only ok responses are cached: every entry of the dynamic partition
\* holds a response with an ok status, and a network response that is not ok
\* (either lane) is returned as it is and leaves every partition unchanged.
C7_OnlyOkCached ==
  /\ [](\A e \in 1..Len(EntriesOf(caches, DYNAMIC_CACHE_NAME)) :
          LET status == EntriesOf(caches, DYNAMIC_CACHE_NAME)[e].response.status
          IN status >= 200 /\ status < 300)
  /\ [][\A i \in DOMAIN tasks :
          ( /\ (Settles(i, "api_fetch") \/ Settles(i, "page_fetch"))
            /\ last'.req = tasks[i].req
            /\ last'.net # <<>>
            /\ (last'.net[1].status < 200 \/ last'.net[1].status >= 300) )
          => /\ last'.result = last'.net
             /\ last'.net[1] \in NetResponses
             /\ caches' = caches
             /\ i \notin DOMAIN tasks'
             /\ last'.ops = tasks[i].ops
             /\ last'.bg = "none" /\ last'.timer = "none"]_vars

\* a 404 for an API URL was returned while the dynamic partition kept the
\* snapshot it stored for that URL
C7_Witness ==
  /\ Answered(last) /\ last.lane = "API_LANE"
  /\ last.net # <<>> /\ last.net[1].status = 404
  /\ last.result = last.net
  /\ SnapshotsIn(caches, DYNAMIC_CACHE_NAME, RequestUrl(last.req)) # {}

\* the event dispatched in this step, which is the (nfetch + 1)-th
Dispatched ==
  IF (nfetch + 1) \in DOMAIN tasks' THEN tasks'[nfetch + 1] ELSE last'

\* the request's URL uses http or https
NetworkScheme(request) == request.scheme \in {SchemeHttp, SelfScheme}

\* C8: a request whose method is not GET, or whose URL does not use a network
\* scheme, is not answered by the listener and causes no cache interaction:
\* no partition is opened, read, written or deleted, no timer is set.
C8_SkipTouchesNothing ==
  [][nfetch' = nfetch + 1 =>
       ( (Dispatched.req.method # "GET" \/ ~NetworkScheme(Dispatched.req))
         => /\ (nfetch + 1) \notin DOMAIN tasks'
            /\ tasks' = tasks
            /\ caches' = caches
            /\ lim' = lim
            /\ last'.pc = "skipped"
            /\ last'.result = <<>> /\ last'.net = <<>>
            /\ last'.ops = {}
            /\ ~last'.fetched
            /\ last'.bg = "none" /\ last'.timer = "none" )]_vars

\* a POST to the RPC host was passed through
C8_Witness ==
  /\ last.pc = "skipped"
  /\ last.req.method = "POST" /\ last.req.hostname = HostRpc
  /\ tasks = << >>

\* the events the state holds
Events == { tasks[i] : i \in DOMAIN tasks } \cup { last }

\* C9: routing is total and decided by the host name and the path alone: a
\* GET request with a network-scheme URL takes the API lane exactly when its
\* host name contains "sui" or its path contains "api", whatever its scheme,
\* query and mode, and the page lane otherwise.
C9_RoutingTotal ==
  \A ev \in Events :
    (ev.pc # "none" /\ ev.req.method = "GET" /\ NetworkScheme(ev.req))
    => /\ ev.lane \in {"API_LANE", "PAGE_LANE"}
       /\ ev.lane = "API_LANE"
            <=> (ev.req.hostname = HostRpc \/ ev.req.pathname = PathApi)
       /\ ev.lane = "API_LANE" => ev.pc = "api_fetch" /\ ev.fetched /\ ev.ops = {}
       /\ ev.lane = "PAGE_LANE"
            => ev.pc = "page_match" /\ ~ev.fetched /\ ev.ops = {"match"}

\* a navigation to the worker's own host took the API lane for its path,
\* although its query names no marker
C9_Witness ==
  \E ev \in Events :
    /\ ev.lane = "API_LANE" /\ ev.pc = "api_fetch"
    /\ ev.req.hostname = SelfHost /\ ev.req.pathname = PathApi
    /\ ev.req.search = NoSearch /\ ev.req.mode = "navigate"

\* C10: activation destroys exactly the partitions whose name is neither the
\* static nor the dynamic name of this version: once it completes no other
\* partition exists, and no step of it removes one of the two or changes
\* their entries.
C10_ActivationCleanup ==
  /\ [](phase = "activated"
          => CacheNames(caches) \subseteq {"suisight-static-v1.0.0",
                                           "suisight-dynamic-v1.0.0"})
  /\ [][(phase = "activating" /\ act' # act)
          => \A name \in {"suisight-static-v1.0.0", "suisight-dynamic-v1.0.0"} :
               /\ name \in CacheNames(caches) => name \in CacheNames(caches')
               /\ EntriesOf(caches', name) = EntriesOf(caches, name)
               /\ \A n \in CacheNames(caches) \ CacheNames(caches') :
                    n \in act.pending]_vars

\* activation completed on a storage that held stale partitions next to the
\* two current ones, whose entries are still there
C10_Witness ==
  /\ phase = "activated" /\ claimed
  /\ tasks = << >> /\ nfetch = 0 /\ lim.pc = "idle"
  /\ CacheNames(caches) = {"suisight-static-v1.0.0", "suisight-dynamic-v1.0.0"}
  /\ Len(EntriesOf(caches, "suisight-dynamic-v1.0.0")) > 50
  /\ Len(EntriesOf(caches, "suisight-static-v1.0.0")) > 0

\* the entries of the static partition
StaticEntries(cs) == EntriesOf(cs, "suisight-static-v1.0.0")

\* the entries of the dynamic partition
DynamicEntries(cs) == EntriesOf(cs, "suisight-dynamic-v1.0.0")

\* the URLs the manifest resolves to
ManifestUrls ==
  { SelfUrl(<<"/">>),
    SelfUrl(<<"/","i","n","d","e","x",".","h","t","m","l">>),
    SelfUrl(<<"/","m","a","n","i","f","e","s","t",".","j","s","o","n">>),
    SelfUrl(<<"/","F","u","l","c","r","u","m",".","p","n","g">>),
    SelfUrl(<<"/","v","i","t","e",".","s","v","g">>) }

\* C11: the static preload is all-or-nothing: when the fetch of any manifest
\* asset fails during install, the static partition gains none of the
\* manifest entries of that install (it is left as it was); when all
\* succeed, it holds an entry for every manifest URL.
C11_PreloadAllOrNothing ==
  /\ [][(phase = "installing" /\ preload' = "failed")
          => StaticEntries(caches') = StaticEntries(caches)]_vars
  /\ [](preload = "failed"
          => \A e \in 1..Len(StaticEntries(caches)) :
               StaticEntries(caches)[e].response.body # "asset")
  /\ [][(phase = "installing" /\ preload' = "ok")
          => \A url \in ManifestUrls :
               SnapshotsIn(caches', "suisight-static-v1.0.0", url)
                 = { [status |-> 200, statusText |-> "OK",
                      contentType |-> "text/html", body |-> "asset"] }]_vars

\* a preload failed on a static partition that held two entries of an
\* earlier run, and the partition holds exactly those two
C11_Witness ==
  /\ preload = "failed" /\ phase = "installed"
  /\ Len(StaticEntries(caches)) = 2
  /\ \A e \in 1..2 : StaticEntries(caches)[e].response.body = "v0"

\* C12: every install event completes (the worker becomes installed) whether
\* the preload succeeds or fails, and in both cases skipWaiting is called.
C12_InstallAlwaysTakesOver ==
  preload \in {"ok", "failed"}
  => /\ phase \in {"installed", "activating", "activated"}
     /\ skipWaiting

\* the place of url in the order the seed entries were inserted
SeedIndex(url) ==
  CHOOSE k \in 1..(MaxItems + MaxExtra) : SelfUrl(SeedPath(k)) = url

\* C13: with no other event interleaved, limitCacheSize(dynamic, 50) on a
\* partition holding N entries inserted in the order e1..eN removes exactly
\* e1..e(N-50) and leaves e(N-49)..eN in order when N > 50, and leaves the
\* partition unchanged when N <= 50; it never changes the static partition.
C13_EvictsOldest ==
  /\ [](lim.pc = "deleting"
          => LET es == DynamicEntries(caches)
                 k == Cardinality(lim.pending)
                 n == SeedIndex(es[Len(es)].url)
             IN /\ Len(es) = 50 + k
                /\ lim.pending = { es[j].url : j \in 1..k }
                /\ SubSeq(es, k + 1, Len(es)) = SubSeq(SeedEntries(n), n - 49, n))
  /\ [][(lim.pc = "idle" /\ lim'.pc = "deleting")
          => /\ Len(DynamicEntries(caches)) > 50
             /\ caches' = caches]_vars
  /\ [][(lim.pc = "idle" /\ Len(DynamicEntries(caches)) <= 50)
          => /\ lim' = lim
             /\ DynamicEntries(caches') = DynamicEntries(caches)]_vars
  /\ [][(lim.pc = "deleting" /\ lim'.pc = "idle")
          => lim.pending = {} /\ caches' = caches]_vars
  /\ [][StaticEntries(caches') = StaticEntries(caches)]_vars

\* a pass over 53 entries has removed the three oldest: the partition starts
\* with the fourth and holds 50
C13_Witness ==
  /\ lim.pc = "deleting" /\ lim.pending = {}
  /\ Len(DynamicEntries(caches)) = 50
  /\ DynamicEntries(caches)[1].url = SelfUrl(SeedPath(4))
  /\ DynamicEntries(caches)[50].url = SelfUrl(SeedPath(53))
  /\ Len(StaticEntries(caches)) = 5

\* the URLs of the requests that take the API lane
ApiUrls ==
  { RequestUrl(request) :
      request \in { r \in Requests : r.method = "GET" /\ r.hostname = HostRpc } }

\* C14: an entry the API lane wrote to the dynamic partition is absent from
\* it 5 minutes after the write, also when the worker is terminated and
\* restarted in between: as long as the entry is stored, a timer that will
\* delete it within 5 minutes of the write is pending.  (The entries with
\* body "v1" are those written since the script was evaluated.)
C14_ExpiryPending ==
  \A e \in 1..Len(DynamicEntries(caches)) :
    LET entry == DynamicEntries(caches)[e]
    IN (entry.url \in ApiUrls /\ entry.response.body = "v1")
       => \E i \in DOMAIN tasks :
            /\ RequestUrl(tasks[i].req) = entry.url
            /\ tasks[i].timer = "armed"

\* C15: a storage failure during the cache write that follows a successful
\* fetch never changes the caller's outcome: the caller has received the live
\* response, the failed operation leaves the partitions as they were, and
\* the failure is caught, not left as an unhandled rejection.
C15_StorageFailureSwallowed ==
  /\ [][rejection' # rejection
          => /\ caches' = caches
             /\ last' = last
             /\ \E i \in DOMAIN tasks :
                  /\ tasks[i].bg \in {"open", "put"}
                  /\ tasks[i].pc = "done"
                  /\ tasks[i].result = tasks[i].net
                  /\ tasks[i].net # <<>>]_vars
  /\ [](rejection # "unhandled")

\* C16: within one intercepted request whose fetch returns an ok response,
\* the response is delivered to the caller before, or in the same step as,
\* the entry is written to the dynamic partition: the delivering step writes
\* nothing and leaves the write pending, and while the write is pending or
\* taking effect the response has been delivered.
C16_ResponseBeforeWrite ==
  /\ [](\A i \in DOMAIN tasks :
          tasks[i].bg \in {"open", "put"}
          => /\ tasks[i].pc = "done"
             /\ tasks[i].net # <<>>
             /\ tasks[i].result = tasks[i].net)
  /\ [][\A i \in DOMAIN tasks :
          ( /\ (Settles(i, "api_fetch") \/ Settles(i, "page_fetch"))
            /\ last'.req = tasks[i].req
            /\ last'.net # <<>>
            /\ last'.net[1].status >= 200 /\ last'.net[1].status < 300 )
          => /\ last'.result = last'.net
             /\ caches' = caches
             /\ i \in DOMAIN tasks' /\ tasks'[i].bg = "open"
             /\ "put" \notin tasks'[i].ops]_vars
  /\ [][\A i \in DOMAIN tasks :
          (tasks[i].bg = "put" /\ caches' # caches
             /\ (i \notin DOMAIN tasks' \/ tasks'[i].bg = "done"))
          => tasks[i].pc = "done" /\ tasks[i].result = tasks[i].net]_vars

\* a page-lane response went to the client while its cache.put is still in
\* flight and the dynamic partition does not store it
C16_Witness ==
  \E i \in DOMAIN tasks :
    /\ tasks[i].lane = "PAGE_LANE" /\ tasks[i].bg = "put"
    /\ tasks[i].pc = "done"
    /\ last.req = tasks[i].req /\ last.result = tasks[i].net
    /\ tasks[i].net[1] \notin
         SnapshotsIn(caches, "suisight-dynamic-v1.0.0", RequestUrl(tasks[i].req))

\* entries without the one at position p
Without(entries, p) ==
  SubSeq(entries, 1, p - 1) \o SubSeq(entries, p + 1, Len(entries))

\* C17: in every limitCacheSize pass, also one whose key enumeration and
\* deletions are interleaved with cache writes and expiry deletions of other
\* events, a deletion of the pass takes effect only while the partition holds
\* more than maxItems entries (it removes at most count - maxItems and never
\* brings the partition below maxItems), and the entry it removes is older
\* than every entry the pass leaves.
C17_EvictionBounded ==
  [][(lim.pc = "deleting" /\ lim'.pending # lim.pending
        /\ DynamicEntries(caches') # DynamicEntries(caches))
       => LET es == DynamicEntries(caches)
          IN /\ Len(DynamicEntries(caches')) >= 50
             /\ \E p \in 1..Len(es) :
                  /\ DynamicEntries(caches') = Without(es, p)
                  /\ \A q \in 1..(p - 1) : es[q].url \in lim.pending]_vars

\* C18: the expiry timer set by an API-lane cache write deletes only the
\* entry of that same write: when the same request is fetched and cached
\* again before the timer fires, the timer does not remove the newer entry.
\* (A pending timer leaves the state only by firing.)
C18_TimerDeletesOwnEntry ==
  [][\A i \in DOMAIN tasks :
       ( /\ tasks[i].timer = "armed"
         /\ i \notin DOMAIN tasks'
         /\ DynamicEntries(caches') # DynamicEntries(caches) )
       => \A e \in 1..Len(DynamicEntries(caches)) :
            LET entry == DynamicEntries(caches)[e]
            IN entry.url = RequestUrl(tasks[i].req)
               => entry.response = tasks[i].net[1]]_vars

C20_StaticFrozen ==
  /\ [][StaticEntries(caches') # StaticEntries(caches)
          => phase = "installing" /\ preload' = "ok"]_vars
  /\ [][("suisight-static-v1.0.0" \notin CacheNames(caches')
            /\ "suisight-static-v1.0.0" \in CacheNames(caches))
          => FALSE]_vars
  /\ [](preload = "ok"
          => /\ \A url \in ManifestUrls :
                  SnapshotsIn(caches, "suisight-static-v1.0.0", url)
                    = { [status |-> 200, statusText |-> "OK",
                         contentType |-> "text/html", body |-> "asset"] }
             /\ Len(StaticEntries(caches)) = 5)

\* after a successful preload a page was fetched and cached, a cleanup pass
\* has evicted two entries of the dynamic partition, and the static partition
\* stores the preloaded /index.html
C20_Witness ==
  /\ preload = "ok" /\ phase = "activated" /\ nfetch >= 1
  /\ lim.pc = "deleting" /\ lim.pending = {}
  /\ Len(DynamicEntries(caches)) = 50
  /\ \E e \in 1..50 : DynamicEntries(caches)[e].response.body = "v1"
  /\ SnapshotsIn(caches, "suisight-static-v1.0.0",
                 SelfUrl(<<"/","i","n","d","e","x",".","h","t","m","l">>))
       = { [status |-> 200, statusText |-> "OK",
            contentType |-> "text/html", body |-> "asset"] }

====
